---- MODULE Spec2Model ----
(***************************************************************************)
(* Model of the cursors-everywhere content script (src/content.js): one   *)
(* tab's event loop.  Every handler the script registers (mousemove, the  *)
(* 100 ms flush interval, the presence 'update' and 'leave' subscribers,  *)
(* the presence.get callback, the replay setTimeout callbacks and the     *)
(* runtime message listener) is one atomic action, because the handlers   *)
(* run to completion on a single thread.                                   *)
(*                                                                         *)
(* Time is the value of performance.now() in milliseconds.  Timers are    *)
(* punctual: the clock does not move past the deadline of a pending timer,*)
(* so a timer callback runs at its deadline, interleaved in any order     *)
(* with the other events of that instant.                                  *)
(*                                                                         *)
(* The Spaces version of the script (src/background.js:226-402) is        *)
(* modelled on the same variables, in a section of its own.               *)
(***************************************************************************)
EXTENDS Integers, Sequences, FiniteSets, TLC

(***************************************************************************)
(* Bounds of the exploration.                                              *)
(***************************************************************************)
MaxCaptured == 3
MaxTimers == 2
MaxPendingGets == 1
MaxTime == 300
MaxChildren == 3
MaxPendingEnters == 2
MaxStorageOps == 4

\* Amounts by which the clock advances between events (ms).
ClockSteps == {50}

(***************************************************************************)
(* Program constants.                                                      *)
(***************************************************************************)
\* setInterval(..., 100)
batchIntervalMs == 100
\* BATCH_SIZE of the documented batching scheme
batchSizeLimit == 2

\* clientId of this tab and of the remote participants
clientId == "Me"
ClientIds == {"Me", "P"}
color == "#c0ffee"

\* let baseTime;  /  baseTime = null;
NoBaseTime == -1
\* cursors[id] of an id that has no property
NoCursor == 0
\* element.style.left / top never assigned
NoStyle == <<>>
\* document.elementFromPoint returned null
NoElement == [className |-> <<>>, id |-> "", left |-> 0, top |-> 0, null |-> TRUE]

VARIABLES
    cursorCommunicationEnabled, \* let cursorCommunicationEnabled
    positions,                  \* let positions = []
    baseTime,                   \* let baseTime
    cursors,                    \* let cursors = {} : clientId -> element
    body,                       \* cursor elements that are children of document.body
    style,                      \* element -> <<left, top>> or NoStyle
    timers,                     \* pending replay setTimeout callbacks, in registration order
    pendingGets,                \* presence.get calls whose callback has not run
    entered,                    \* this client is in the channel's presence set
    now,                        \* performance.now()
    nextFlush,                  \* deadline of the setInterval flush timer
    published,                  \* history: data of every channel.presence.update call
    captured,                   \* history: number of samples pushed to positions
    pendingAtDisable,           \* history: ids of samples in positions at a disable
    staleWrite,                 \* history: which kinds of stale timers have written a position
    lastOp,                     \* history: the handler that ran last
    batchOrder,                 \* history: per participant, the sender's number of the newest
                                \*   batch delivered (received) and of the newest batch replayed (applied)
    pendingEnter,               \* handleBackgroundMessage calls suspended at await space.enter
    location,                   \* window.location.href of the tab
    channel,                    \* name of the channel the script got at load
    toggles,                    \* history: number of setCursorCommunication messages handled, modulo 2
    arg,                        \* argument of the helper function applied last
    result,                     \* value that application returned
    inFlight,                   \* presence messages published on the channel and not yet delivered
    storage,                    \* chrome.storage.sync: the value stored under urlKey is true
    storageOps                  \* chrome.storage.sync calls whose callback has not run, oldest first

vars == <<cursorCommunicationEnabled, positions, baseTime, cursors, body, style,
          timers, pendingGets, entered, now, nextFlush, published, captured,
          pendingAtDisable, staleWrite, lastOp, batchOrder, pendingEnter,
          location, channel, toggles, arg, result, inFlight, storage, storageOps>>

pageVars == <<location, channel>>
funVars == <<arg, result>>
storeVars == <<storage, storageOps>>
\* what the handlers of the content script leave alone
otherVars == <<pageVars, funVars, toggles, storeVars>>
\* the same and the messages in flight, for the handlers that receive no presence message
restVars == <<otherVars, inFlight>>

sendVars == <<positions, baseTime, published, captured>>
recvVars == <<cursors, body, style, timers, staleWrite, batchOrder>>

(***************************************************************************)
(* The document of this tab.                                               *)
(***************************************************************************)
\* A page element: its class tokens, its id and its bounding rectangle.
boxElement == [className |-> <<"box">>, id |-> "", left |-> 5, top |-> 5, null |-> FALSE]
bodyElement == [className |-> <<>>, id |-> "", left |-> 0, top |-> 0, null |-> FALSE]

\* Mouse events the user can produce: clientX/clientY = pageX/pageY (no scroll).
MousePoints == {<<10, 10>>, <<20, 15>>, <<-1, -1>>}

\* the topmost element of the page itself at a point, the cursor elements
\* this script injects left aside
pageElementAt(p) ==
    IF p = <<10, 10>> THEN boxElement
    ELSE IF p = <<20, 15>> THEN bodyElement
    ELSE NoElement

RECURSIVE JoinClasses(_)
\* `.${element.className}`.replaceAll(' ', '.') over the class tokens
JoinClasses(cs) ==
    IF cs = <<>> THEN "" ELSE "." \o Head(cs) \o JoinClasses(Tail(cs))

\* the selector string built by the mousemove listener
elementClassAndID(el) ==
    JoinClasses(el.className) \o (IF el.id # "" THEN " #" \o el.id ELSE "")

\* document.querySelectorAll(selector).length on this tab's document
querySelectorCount(sel) ==
    IF sel = ".box" THEN 1
    ELSE IF sel = ".dup" THEN 2
    ELSE 0

\* the single element a selector resolves to (only used when the count is 1)
querySelectorFirst(sel) == boxElement

(***************************************************************************)
(* Messages of the transport.                                              *)
(***************************************************************************)
\* One entry of a positions array as the mousemove listener builds it.  id and
\* epoch are history fields: the capture number of the sample and the number
\* of batches its sender published before its capture.
Sample(x, y, xElement, yElement, time, element, id, epoch) ==
    [x |-> x, y |-> y, xElement |-> xElement, yElement |-> yElement,
     time |-> time, element |-> element, id |-> id, epoch |-> epoch]

\* Samples captured by a remote participant.
remoteSample0 == Sample(10, 10, 5, 5, 0, ".box", 0, 0)
remoteSample50 == Sample(20, 15, 20, 15, 50, "", 0, 0)

\* presenceMsg.data: {color} after presence.enter, {positions, color} after
\* presence.update.  hasPositions is the truthiness of data.positions.
EnterData == [hasPositions |-> FALSE, positions |-> <<>>, color |-> color]
UpdateData(ps) == [hasPositions |-> TRUE, positions |-> ps, color |-> color]

RemoteData == {EnterData, UpdateData(<<remoteSample0, remoteSample50>>)}

PresenceMsg(c, d) == [clientId |-> c, data |-> d]

\* a presence message on its way to the subscribers
PresenceMessage(c, action, d) == [clientId |-> c, action |-> action, data |-> d]

\* Results of channel.presence.get: the members in any order, each once.
PresenceSets ==
    {<<>>}
    \cup {<<PresenceMsg(c, d)>> : c \in ClientIds, d \in RemoteData}
    \cup UNION {{<<PresenceMsg(c1, d1), PresenceMsg(c2, EnterData)>> :
                    c2 \in ClientIds \ {c1}, d1 \in RemoteData} : c1 \in ClientIds}

(***************************************************************************)
(* Initial state: the script has just run (content.js:4-62).               *)
(***************************************************************************)
ElemIds == 1..(Cardinality(ClientIds) + 1)

\* the state when the script has run at time t of performance.now()
InitScript(t) ==
    /\ cursorCommunicationEnabled = FALSE
    /\ positions = <<>>
    /\ baseTime = NoBaseTime
    /\ cursors = [c \in ClientIds |-> NoCursor]
    /\ body = {}
    /\ style = [e \in ElemIds |-> NoStyle]
    /\ timers = <<>>
    /\ pendingGets = 0
    /\ entered = FALSE
    /\ now = t
    /\ nextFlush = now + batchIntervalMs
    /\ published = <<>>
    /\ captured = 0
    /\ pendingAtDisable = {}
    /\ staleWrite = {}
    /\ lastOp = "load"
    /\ batchOrder = [c \in ClientIds |-> [received |-> 0, applied |-> 0]]
    /\ pendingEnter = 0

\* the URLs of the pages: two URLs of one document that differ in the
\* fragment, and another document
pageUrl == "https://a.test/"
Urls == {pageUrl, "https://a.test/#top", "https://b.test/"}

\* 'cursor-position-' + url
ChannelName(u) == "cursor-position-" \o u

\* no argument, no value
NoValue == <<>>

\* the state after the script has run on a page loaded at URL u at time t
InitPage(t, u) ==
    /\ location = u
    /\ channel = ChannelName(u)
    /\ toggles = 0
    /\ arg = NoValue
    /\ result = NoValue
    /\ inFlight = {}
    /\ storage = FALSE
    /\ storageOps = <<>>
    /\ InitScript(t)

InitAt(t) == InitPage(t, pageUrl)

Init == \E t \in ClockSteps : InitAt(t)

(***************************************************************************)
(* Capture: the mousemove listener (content.js:24-49).                     *)
(***************************************************************************)
\* cursor.style.width = '10px'; cursor.style.height = '10px'
cursorSizePx == 10

\* the attached cursor elements whose square covers the point
CursorsAt(p) ==
    {e \in body : /\ style[e] # NoStyle
                  /\ style[e][1] <= p[1] /\ p[1] < style[e][1] + cursorSizePx
                  /\ style[e][2] <= p[2] /\ p[2] < style[e][2] + cursorSizePx}

\* a cursor element as the listener sees it: a div without class and id
cursorElement(e) ==
    [className |-> <<>>, id |-> "", left |-> style[e][1], top |-> style[e][2], null |-> FALSE]

\* document.elementFromPoint(e.clientX, e.clientY): the elements it can return.
\* The cursor elements have z-index 9999 and lie over the page; of several
\* cursors that cover the point the one attached last is on top, and the
\* order of attachment is not kept in the model.
elementFromPoint(p) ==
    IF CursorsAt(p) = {} THEN {pageElementAt(p)}
    ELSE {cursorElement(e) : e \in CursorsAt(p)}

\* the listener without its enabled check
CaptureGuardMut == TRUE

\* if (cursorCommunicationEnabled)
CaptureGuard == cursorCommunicationEnabled

\* !baseTime
Falsy(b) == b = NoBaseTime \/ b = 0

\* time: now - baseTime
SampleTime(n, b) == n - b

\* positions.unshift(sample)
PushSampleMut(ps, s) == <<s>> \o ps

\* positions.push(sample)
PushSample(ps, s) == Append(ps, s)

MouseMove(p) ==
    \E element \in elementFromPoint(p) :
    LET base == IF Falsy(baseTime) THEN now ELSE baseTime
        sample == Sample(p[1], p[2], p[1] - element.left, p[2] - element.top,
                         SampleTime(now, base), elementClassAndID(element),
                         captured + 1, Len(published))
    IN  /\ captured < MaxCaptured
        /\ IF ~CaptureGuard
             THEN /\ lastOp' = "mousemove_off"
                  /\ UNCHANGED sendVars
             ELSE IF element.null
             \* element.className of null throws a TypeError: the listener stops
             THEN /\ lastOp' = "mousemove_throw"
                  /\ UNCHANGED sendVars
             ELSE /\ baseTime' = base
                  /\ positions' = PushSample(positions, sample)
                  /\ captured' = captured + 1
                  /\ lastOp' = "mousemove"
                  /\ UNCHANGED published
        /\ UNCHANGED <<cursorCommunicationEnabled, recvVars, pendingGets, entered,
                       now, nextFlush, pendingAtDisable, pendingEnter>>

    /\ UNCHANGED restVars
(***************************************************************************)
(* Flush: the setInterval callback (content.js:53-59).                     *)
(***************************************************************************)
\* the flush without its positions.length check
FlushGuardMut == cursorCommunicationEnabled

\* if (cursorCommunicationEnabled && positions.length > 0)
FlushGuard == cursorCommunicationEnabled /\ Len(positions) > 0

\* the flush that sends the newest sample only
FlushedDataMut(ps) == UpdateData(<<ps[Len(ps)]>>)

\* {positions, color}
FlushedData(ps) == UpdateData(ps)

\* the flush without positions = []
FlushedPositionsMut(ps) == ps

\* positions = [];
FlushedPositions(ps) == <<>>

\* the flush without baseTime = null
FlushedBaseTimeMut(b) == b

\* baseTime = null;
FlushedBaseTime(b) == NoBaseTime

Flush ==
    /\ now >= nextFlush
    /\ nextFlush' = nextFlush + batchIntervalMs
    /\ IF FlushGuard
         THEN /\ published' = Append(published, FlushedData(positions))
              /\ positions' = FlushedPositions(positions)
              /\ baseTime' = FlushedBaseTime(baseTime)
              /\ lastOp' = "flush"
         ELSE /\ lastOp' = "tick"
              /\ UNCHANGED <<published, positions, baseTime>>
    /\ UNCHANGED <<cursorCommunicationEnabled, recvVars, pendingGets, entered,
                   now, captured, pendingAtDisable, pendingEnter>>

    /\ UNCHANGED restVars
(***************************************************************************)
(* Remote cursors: creation, replay and removal (content.js:62-183).       *)
(***************************************************************************)
\* the elements the cursors object refers to
CursorElems(cs) == {cs[c] : c \in ClientIds} \ {NoCursor}

\* document.createElement('div'): an element that is neither attached nor
\* referenced; the identity of a dropped element is reused.
FreeElems(cs, b) == ElemIds \ (b \cup CursorElems(cs))
NewElement(cs, b) == CHOOSE e \in FreeElems(cs, b) : \A f \in FreeElems(cs, b) : e <= f

\* The part of the state the receive handlers work on.
RecvState(cs, b, st, ts) == [cursors |-> cs, body |-> b, style |-> st, timers |-> ts]

\* a createElement block that also assigns style.left and style.top
CreateCursorMut(rs, c) ==
    IF rs.cursors[c] # NoCursor THEN rs
    ELSE LET e == NewElement(rs.cursors, rs.body)
         IN  [rs EXCEPT !.cursors[c] = e,
                        !.body = rs.body \cup {e},
                        !.style[e] = <<0, 0>>]

\* if (!cursors[id]) { cursor = createElement; body.appendChild(cursor);
\*                     cursors[id] = cursor }           (content.js:70-89, 150-169)
CreateCursor(rs, c) ==
    IF rs.cursors[c] # NoCursor THEN rs
    ELSE LET e == NewElement(rs.cursors, rs.body)
         IN  [rs EXCEPT !.cursors[c] = e,
                        !.body = rs.body \cup {e},
                        !.style[e] = NoStyle]

\* delete cursors[id] without document.body.removeChild(cursors[id])
RemoveCursorMut(rs, c) ==
    IF rs.cursors[c] = NoCursor THEN rs
    ELSE [rs EXCEPT !.cursors[c] = NoCursor]

\* document.body.removeChild(cursors[id]); delete cursors[id]  (content.js:125-126)
RemoveCursor(rs, c) ==
    IF rs.cursors[c] = NoCursor THEN rs
    ELSE [rs EXCEPT !.cursors[c] = NoCursor,
                    !.body = rs.body \ {rs.cursors[c]},
                    !.style[rs.cursors[c]] = NoStyle]

\* setTimeout(callback, 0) in place of setTimeout(callback, position.time)
TimerMut(c, position, src, t) ==
    [clientId |-> c, position |-> position, src |-> src,
     due |-> t, delay |-> 0, received |-> t,
     preDisable |-> FALSE, preLeave |-> FALSE, late |-> FALSE]

\* setTimeout(callback, position.time) registered at time t.  src tells which
\* callback it is.  History fields: received is the registration time;
\* preDisable and preLeave tell that a disable, or a leave of the participant,
\* has been processed since the registration; late tells that the batch was
\* received after a sample of a newer batch of the same participant was replayed.
Timer(c, position, src, t) ==
    [clientId |-> c, position |-> position, src |-> src,
     due |-> t + position.time, delay |-> position.time, received |-> t,
     preDisable |-> FALSE, preLeave |-> FALSE, late |-> FALSE]

RECURSIVE ScheduleReplay(_, _, _, _, _)
\* data.positions.forEach(position => setTimeout(...))  (content.js:93-116, 174-180)
ScheduleReplay(ts, c, ps, src, t) ==
    IF ps = <<>> THEN ts
    ELSE ScheduleReplay(Append(ts, Timer(c, Head(ps), src, t)), c, Tail(ps), src, t)

\* if (cursorCommunicationEnabled) in the 'update' subscriber
ReplayGuard == cursorCommunicationEnabled

\* channel.presence.subscribe('update', ...)  (content.js:65-118)
OnUpdate(rs, msg, t) ==
    IF ~ReplayGuard THEN rs
    ELSE LET rs1 == CreateCursor(rs, msg.clientId)
         IN  IF ~msg.data.hasPositions THEN rs1
             ELSE [rs1 EXCEPT !.timers =
                      ScheduleReplay(rs1.timers, msg.clientId, msg.data.positions, "update", t)]

\* channel.presence.subscribe('leave', ...)  (content.js:122-128)
OnLeave(rs, c) == RemoveCursor(rs, c)

RECURSIVE ClearLoop(_, _)
ClearLoop(rs, ids) ==
    IF ids = {} THEN rs
    ELSE LET c == CHOOSE c \in ids : TRUE
         IN  ClearLoop(RemoveCursor(rs, c), ids \ {c})

\* function clearCursors()  (content.js:131-136)
clearCursors(rs) == ClearLoop(rs, {c \in ClientIds : rs.cursors[c] # NoCursor})

RECURSIVE SnapshotLoop(_, _, _, _)
\* the for loop of the presence.get callback (content.js:146-181); the
\* `return` on a member without positions leaves the callback
SnapshotLoop(rs, presenceSet, i, t) ==
    IF i > Len(presenceSet) THEN rs
    ELSE LET msg == presenceSet[i]
             rs1 == CreateCursor(rs, msg.clientId)
         IN  IF ~msg.data.hasPositions THEN rs1
             ELSE SnapshotLoop(
                    [rs1 EXCEPT !.timers =
                       ScheduleReplay(rs1.timers, msg.clientId, msg.data.positions, "snapshot", t)],
                    presenceSet, i + 1, t)

\* the callback without its `if (err) return`
OnPresenceSetMut(rs, err, presenceSet, t) == SnapshotLoop(rs, presenceSet, 1, t)

\* the callback of channel.presence.get  (content.js:140-182)
OnPresenceSet(rs, err, presenceSet, t) ==
    IF err THEN rs ELSE SnapshotLoop(rs, presenceSet, 1, t)

\* the position a replay callback assigns, or NoStyle when it assigns none
ReplayPosition(cs, tm) ==
    IF cs[tm.clientId] = NoCursor THEN NoStyle
    ELSE IF tm.src = "snapshot" THEN <<tm.position.x, tm.position.y>>
    ELSE IF tm.position.element # "" /\ querySelectorCount(tm.position.element) = 1
         THEN LET rect == querySelectorFirst(tm.position.element)
              IN  <<rect.left + tm.position.xElement, rect.top + tm.position.yElement>>
    ELSE <<tm.position.x, tm.position.y>>

\* a callback that creates the cursor it does not find
OnReplayMut(rs, tm) ==
    LET rs1 == CreateCursor(rs, tm.clientId)
    IN  [rs1 EXCEPT !.style[rs1.cursors[tm.clientId]] = <<tm.position.x, tm.position.y>>]

\* the setTimeout callbacks  (content.js:94-115, 175-179)
OnReplay(rs, tm) ==
    LET pos == ReplayPosition(rs.cursors, tm)
    IN  IF pos = NoStyle THEN rs
        ELSE [rs EXCEPT !.style[rs.cursors[tm.clientId]] = pos]

RemoveAt(s, i) == SubSeq(s, 1, i - 1) \o SubSeq(s, i + 1, Len(s))

\* history: mark the timers that are pending at a disable / at a leave of c
MarkDisable(ts) == [i \in 1..Len(ts) |-> [ts[i] EXCEPT !.preDisable = TRUE]]
MarkLeave(ts, c) ==
    [i \in 1..Len(ts) |-> IF ts[i].clientId = c THEN [ts[i] EXCEPT !.preLeave = TRUE] ELSE ts[i]]

\* history: the sender's number of a batch (the epoch of its samples)
BatchNumber(d) == IF d.positions = <<>> THEN 0 ELSE d.positions[1].epoch

Max(a, b) == IF a >= b THEN a ELSE b

\* history: mark the timers registered after the first n as late
MarkLate(ts, n, isLate) ==
    [i \in 1..Len(ts) |-> IF i > n THEN [ts[i] EXCEPT !.late = isLate] ELSE ts[i]]

\* bound of the exploration: the handler's result fits the model
Fits(rs) == Len(rs.timers) <= MaxTimers

SetRecv(rs) ==
    /\ cursors' = rs.cursors
    /\ body' = rs.body
    /\ style' = rs.style
    /\ timers' = rs.timers

CurrentRecv == RecvState(cursors, body, style, timers)

UpdateDelivery(c, d) ==
    LET rs == OnUpdate(CurrentRecv, PresenceMsg(c, d), now)
    IN  /\ Fits(rs)
        /\ SetRecv([rs EXCEPT !.timers =
                      MarkLate(rs.timers, Len(timers), BatchNumber(d) < batchOrder[c].applied)])
        /\ batchOrder' = [batchOrder EXCEPT ![c].received = Max(@, BatchNumber(d))]
        /\ lastOp' = "update"
        /\ UNCHANGED <<cursorCommunicationEnabled, sendVars, pendingGets, entered,
                       now, nextFlush, pendingAtDisable, staleWrite, pendingEnter>>

    /\ inFlight' = inFlight \ {PresenceMessage(c, "update", d)}
    /\ UNCHANGED otherVars
LeaveDelivery(c) ==
    LET rs == OnLeave(CurrentRecv, c)
    IN  /\ SetRecv([rs EXCEPT !.timers = MarkLeave(rs.timers, c)])
        /\ lastOp' = "leave"
        /\ UNCHANGED <<cursorCommunicationEnabled, sendVars, pendingGets, entered,
                       now, nextFlush, pendingAtDisable, staleWrite, batchOrder,
                       pendingEnter>>

    /\ inFlight' = inFlight \ {PresenceMessage(c, "leave", EnterData)}
    /\ UNCHANGED otherVars
\* A participant enters the channel's presence set.  The script subscribes to
\* 'update' and 'leave' only (content.js:65, 122): no handler runs.
EnterDelivery(c) ==
    /\ lastOp' = "enter"
    /\ UNCHANGED <<cursorCommunicationEnabled, sendVars, recvVars, pendingGets, entered,
                   now, nextFlush, pendingAtDisable, pendingEnter>>

    /\ UNCHANGED restVars
PresenceGetCallback(err, presenceSet) ==
    LET rs == OnPresenceSet(CurrentRecv, err, presenceSet, now)
    IN  /\ pendingGets > 0
        /\ Fits(rs)
        /\ pendingGets' = pendingGets - 1
        /\ SetRecv(rs)
        /\ lastOp' = IF err THEN "get_error" ELSE "get"
        /\ UNCHANGED <<cursorCommunicationEnabled, sendVars, entered,
                       now, nextFlush, pendingAtDisable, staleWrite, batchOrder,
                       pendingEnter>>

    /\ UNCHANGED restVars
\* A timer runs at its deadline, after the timers registered before it with a
\* delay that is not longer.
ReplayTimer(i) ==
    LET tm == timers[i]
        rs == OnReplay(CurrentRecv, tm)
        wrote == ReplayPosition(cursors, tm) # NoStyle
    IN  /\ tm.due <= now
        /\ \A j \in 1..(i - 1) : timers[j].delay > tm.delay
        /\ SetRecv([rs EXCEPT !.timers = RemoveAt(timers, i)])
        /\ staleWrite' = staleWrite
               \cup (IF wrote /\ tm.preDisable THEN {"disable"} ELSE {})
               \cup (IF wrote /\ tm.preLeave THEN {"leave"} ELSE {})
               \cup (IF wrote /\ tm.late THEN {"late"} ELSE {})
               \cup (IF wrote /\ tm.position.epoch < batchOrder[tm.clientId].applied
                       THEN {"rewind"} ELSE {})
        /\ batchOrder' = IF wrote
                            THEN [batchOrder EXCEPT ![tm.clientId].applied =
                                                       Max(@, tm.position.epoch)]
                            ELSE batchOrder
        /\ lastOp' = IF wrote THEN "replay" ELSE "replay_noop"
        /\ UNCHANGED <<cursorCommunicationEnabled, sendVars, pendingGets, entered,
                       now, nextFlush, pendingAtDisable, pendingEnter>>

    /\ UNCHANGED restVars
(***************************************************************************)
(* The runtime message listener (content.js:196-208).                      *)
(***************************************************************************)
SampleIds(ps) == {ps[i].id : i \in 1..Len(ps)}

ToggleMessage ==
    /\ cursorCommunicationEnabled' = ~cursorCommunicationEnabled
    /\ IF cursorCommunicationEnabled'
         THEN \* fetchPresenceSet(); channel.presence.enter({color})
              /\ pendingGets < MaxPendingGets
              /\ pendingGets' = pendingGets + 1
              /\ entered' = TRUE
              /\ lastOp' = "enable"
              /\ UNCHANGED <<recvVars, pendingAtDisable>>
         ELSE \* clearCursors(); channel.presence.leave()
              /\ SetRecv([clearCursors(CurrentRecv) EXCEPT !.timers = MarkDisable(timers)])
              /\ entered' = FALSE
              /\ pendingAtDisable' = pendingAtDisable \cup SampleIds(positions)
              /\ lastOp' = "disable"
              /\ UNCHANGED <<pendingGets, staleWrite, batchOrder>>
    /\ UNCHANGED <<sendVars, now, nextFlush, pendingEnter>>

    /\ UNCHANGED restVars
(***************************************************************************)
(* The clock.                                                              *)
(***************************************************************************)
\* the clock moves by d, not past limit and not past a pending deadline
AdvanceUntil(limit, d) ==
    /\ now + d <= limit
    /\ now + d <= nextFlush
    /\ \A i \in 1..Len(timers) : now + d <= timers[i].due
    /\ now' = now + d
    /\ UNCHANGED <<cursorCommunicationEnabled, sendVars, recvVars, pendingGets,
                   entered, nextFlush, pendingAtDisable, lastOp, pendingEnter>>

    /\ UNCHANGED restVars
Advance(d) == AdvanceUntil(MaxTime, d)

Next ==
    \/ \E p \in MousePoints : MouseMove(p)
    \/ Flush
    \/ ToggleMessage
    \/ \E c \in ClientIds : EnterDelivery(c)
    \/ \E c \in ClientIds, d \in RemoteData : UpdateDelivery(c, d)
    \/ \E c \in ClientIds : LeaveDelivery(c)
    \/ \E err \in BOOLEAN, presenceSet \in PresenceSets : PresenceGetCallback(err, presenceSet)
    \/ \E i \in 1..Len(timers) : ReplayTimer(i)
    \/ \E d \in ClockSteps : Advance(d)

Spec == Init /\ [][Next]_vars

(***************************************************************************)
(* The two halves of the script.  The capture half (mousemove, flush) and  *)
(* the replay half (subscribers, presence.get callback, replay timers)     *)
(* share cursorCommunicationEnabled and the clock: no replay handler reads *)
(* or writes positions, baseTime or the channel's update call, and no      *)
(* capture handler writes cursors, the document or the replay timers.  The *)
(* hit-test of the mousemove listener sees the cursor elements: with no    *)
(* remote participant there is none.  Each half is explored with the       *)
(* other half's inputs absent; SpecHitTest explores them together.         *)
(***************************************************************************)
\* This tab alone on its channel: presence.get fails or returns no member.
NextCapture ==
    \/ \E p \in MousePoints : MouseMove(p)
    \/ Flush
    \/ ToggleMessage
    \/ \E err \in BOOLEAN : PresenceGetCallback(err, <<>>)
    \/ \E d \in ClockSteps : Advance(d)

SpecCapture == Init /\ [][NextCapture]_vars

\* The pointer moves over one element or leaves the document; the interval
\* timer keeps firing: time passes, and a tick that is due runs.
NextCaptureFair ==
    \/ \E p \in {<<10, 10>>, <<-1, -1>>} : MouseMove(p)
    \/ Flush
    \/ ToggleMessage
    \/ PresenceGetCallback(FALSE, <<>>)
    \/ \E d \in ClockSteps : Advance(d)

SpecCaptureFair ==
    /\ Init
    /\ [][NextCaptureFair]_vars
    /\ WF_vars(Flush)
    /\ WF_vars(\E d \in ClockSteps : Advance(d))

\* The pointer of this tab at rest: no mousemove event.
NextReplay ==
    \/ Flush
    \/ ToggleMessage
    \/ \E c \in ClientIds, d \in RemoteData : UpdateDelivery(c, d)
    \/ \E c \in ClientIds : LeaveDelivery(c)
    \/ \E err \in BOOLEAN, presenceSet \in PresenceSets : PresenceGetCallback(err, presenceSet)
    \/ \E i \in 1..Len(timers) : ReplayTimer(i)
    \/ \E d \in ClockSteps : Advance(d)

SpecReplay == Init /\ [][NextReplay]_vars

(***************************************************************************)
(* The end-to-end scenario: the script runs at local time 2000 and a       *)
(* participant's batch [{t:0, page:(10,10)}, {t:50, page:(20,15)}], whose  *)
(* samples carry no anchor, is delivered.                                  *)
(***************************************************************************)
scenarioSample0 == Sample(10, 10, 10, 10, 0, "", 0, 0)
ScenarioData == UpdateData(<<scenarioSample0, remoteSample50>>)

NextScenario ==
    \/ Flush
    \/ ToggleMessage
    \/ \E c \in ClientIds, d \in {EnterData, ScenarioData} : UpdateDelivery(c, d)
    \/ \E c \in ClientIds : LeaveDelivery(c)
    \/ \E err \in BOOLEAN : PresenceGetCallback(err, <<>>)
    \/ \E i \in 1..Len(timers) : ReplayTimer(i)
    \/ \E d \in ClockSteps : AdvanceUntil(2000 + MaxTime, d)

SpecScenario == InitAt(2000) /\ [][NextScenario]_vars

(***************************************************************************)
(* Two consecutive batches of one sender.  The transport either delivers   *)
(* them in any order, any number of times (SpecOrder), or never delivers   *)
(* a batch after a newer one (SpecInOrder).                                *)
(***************************************************************************)
\* the sample of the sender's second batch
laterSample == Sample(30, 20, 30, 20, 0, "", 0, 1)
\* the remote participant whose batches are delivered
Sender == "P"
EarlierData == UpdateData(<<remoteSample0, remoteSample50>>)
LaterData == UpdateData(<<laterSample>>)

NextOrder ==
    \/ Flush
    \/ ToggleMessage
    \/ \E d \in {EarlierData, LaterData} : UpdateDelivery(Sender, d)
    \/ LeaveDelivery(Sender)
    \/ \E err \in BOOLEAN : PresenceGetCallback(err, <<>>)
    \/ \E i \in 1..Len(timers) : ReplayTimer(i)
    \/ \E d \in ClockSteps : Advance(d)

SpecOrder == Init /\ [][NextOrder]_vars

NextInOrder ==
    \/ Flush
    \/ ToggleMessage
    \/ \E d \in {EarlierData, LaterData} :
          /\ BatchNumber(d) >= batchOrder[Sender].received
          /\ UpdateDelivery(Sender, d)
    \/ LeaveDelivery(Sender)
    \/ \E err \in BOOLEAN : PresenceGetCallback(err, <<>>)
    \/ \E i \in 1..Len(timers) : ReplayTimer(i)
    \/ \E d \in ClockSteps : Advance(d)

SpecInOrder == Init /\ [][NextInOrder]_vars

(***************************************************************************)
(* The replay half with the channel's enter events.                        *)
(***************************************************************************)
NextJoin ==
    \/ NextReplay
    \/ \E c \in ClientIds : EnterDelivery(c)

SpecJoin == Init /\ [][NextJoin]_vars

(***************************************************************************)
(* The replay half with one remote participant sending and leaving, and    *)
(* presence sets of any composition.                                       *)
(***************************************************************************)
NextSnapshot ==
    \/ Flush
    \/ ToggleMessage
    \/ \E d \in RemoteData : UpdateDelivery(Sender, d)
    \/ LeaveDelivery(Sender)
    \/ \E err \in BOOLEAN, presenceSet \in PresenceSets : PresenceGetCallback(err, presenceSet)
    \/ \E i \in 1..Len(timers) : ReplayTimer(i)
    \/ \E d \in ClockSteps : Advance(d)

SpecSnapshot == Init /\ [][NextSnapshot]_vars

(***************************************************************************)
(* The Spaces version of the script (background.js:226-402).  It sends     *)
(* each pointer position at once through space.cursors.set and applies a   *)
(* received position at once in handleCursorUpdate; it has no batches and  *)
(* no replay timers.  The pointer of this tab is at rest.                  *)
(***************************************************************************)
\* the element of this tab's document that has an id, with its bounding rectangle
panelElement == [id |-> "panel", left |-> 40, top |-> 20, width |-> 100, height |-> 50]

\* an element with an id that is hit at the pointer although its bounding
\* rectangle has no height (a horizontal SVG line, hit on its stroke)
ruleElement == [id |-> "rule", left |-> 0, top |-> 30, width |-> 100, height |-> 0]

\* document.getElementById(id) returns an element / the element it returns
hasElementById(id) == id \in {panelElement.id, ruleElement.id}
getElementById(id) == IF id = ruleElement.id THEN ruleElement ELSE panelElement

\* The JavaScript numbers that are not finite, as integers that no
\* coordinate of the model reaches.
JsInfinity == 1000000
JsNegInfinity == -1000000
JsNaN == 1000001
IsFinite(v) == v \notin {JsInfinity, JsNegInfinity, JsNaN}

\* (x / size) * 100: a division by zero gives NaN for 0 / 0 and an infinity
\* otherwise, and the product with 100 keeps it
Percent(x, size) ==
    IF size # 0 THEN (x * 100) \div size
    ELSE IF x = 0 THEN JsNaN
    ELSE IF x > 0 THEN JsInfinity ELSE JsNegInfinity

\* (size * percent) / 100: NaN stays NaN, an infinity times zero is NaN
Scaled(size, percent) ==
    IF IsFinite(percent) THEN (size * percent) \div 100
    ELSE IF percent = JsNaN \/ size = 0 THEN JsNaN
    ELSE percent

\* a + b for a finite a
JsAdd(a, b) == IF IsFinite(b) THEN a + b ELSE b

\* The position handleMouseMove sets (background.js:256-306) for a pointer at
\* <<pageX, pageY>> over an element with the given id ("" for none), at the
\* given percentages of the element's rectangle.  With an id the position
\* holds elementId, x and y and no page coordinates (hasPage is FALSE: pageX
\* and pageY are then history of the mouse event, absent from the message).
CursorPosition(elementId, xPercent, yPercent, pageX, pageY) ==
    IF elementId # ""
      THEN [elementId |-> elementId, x |-> xPercent, y |-> yPercent,
            hasPage |-> FALSE, pageX |-> pageX, pageY |-> pageY]
      ELSE [elementId |-> "", x |-> 0, y |-> 0,
            hasPage |-> TRUE, pageX |-> pageX, pageY |-> pageY]

\* Positions a remote participant sends: over the panel, over an element
\* whose id this tab's document does not have, and over an element without id.
\* the position handleMouseMove sets for a pointer at <<pageX, pageY>> over
\* element el: x = pageX - rect.left, xPercent = (x / rect.width) * 100
\* (background.js:266-275)
CapturedPosition(el, pageX, pageY) ==
    CursorPosition(el.id, Percent(pageX - el.left, el.width),
                   Percent(pageY - el.top, el.height), pageX, pageY)

CursorPositions ==
    { CursorPosition("panel", 50, 50, 90, 45),
      CursorPosition("gone", 10, 20, 30, 40),
      CursorPosition("", 0, 0, 20, 15),
      CapturedPosition(ruleElement, 30, 30),
      CapturedPosition(ruleElement, 30, 31) }

\* the argument of the cursorsUpdate subscriber
CursorUpdates ==
    {[clientId |-> c, position |-> position, data |-> [color |-> color]] :
        c \in ClientIds, position \in CursorPositions}

\* rect.left + (rect.width * position.x) / 100, rect.top + (rect.height * position.y) / 100
AnchorPosition(position) ==
    LET rect == getElementById(position.elementId)
    IN  <<JsAdd(rect.left, Scaled(rect.width, position.x)),
          JsAdd(rect.top, Scaled(rect.height, position.y))>>

\* position.pageX, position.pageY
PagePosition(position) == <<position.pageX, position.pageY>>

\* function handleCursorUpdate(cursorUpdate)  (background.js:308-334); the
\* cursor is created as by createCursor (background.js:336-356)
handleCursorUpdate(rs, cursorUpdate) ==
    IF ~cursorCommunicationEnabled THEN rs
    ELSE LET position == cursorUpdate.position
             rs1 == CreateCursor(rs, cursorUpdate.clientId)
             cursor == rs1.cursors[cursorUpdate.clientId]
         IN  IF position.elementId # ""
               THEN IF hasElementById(position.elementId)
                      THEN [rs1 EXCEPT !.style[cursor] = AnchorPosition(position)]
                      ELSE rs1
               ELSE [rs1 EXCEPT !.style[cursor] = PagePosition(position)]

\* function handleSpaceEvent(msg) for a leave of c  (background.js:358-369)
handleSpaceEvent(rs, c) == RemoveCursor(rs, c)

\* the then-callback of space.cursors.getAll() (background.js:387-395):
\* `for (let member in members)` binds member to the keys, whose clientId
\* and data are undefined, so createCursor is never called
fetchPresenceSetSpaces(rs, members) == rs

CursorUpdateDelivery(cursorUpdate) ==
    /\ SetRecv(handleCursorUpdate(CurrentRecv, cursorUpdate))
    /\ lastOp' = "cursorsUpdate"
    /\ UNCHANGED <<cursorCommunicationEnabled, sendVars, pendingGets, entered,
                   now, nextFlush, pendingAtDisable, staleWrite, batchOrder, pendingEnter>>

    /\ UNCHANGED restVars
SpaceLeaveDelivery(c) ==
    /\ SetRecv(handleSpaceEvent(CurrentRecv, c))
    /\ lastOp' = "space_leave"
    /\ UNCHANGED <<cursorCommunicationEnabled, sendVars, pendingGets, entered,
                   now, nextFlush, pendingAtDisable, staleWrite, batchOrder, pendingEnter>>

    /\ UNCHANGED restVars
GetAllResolved(members) ==
    /\ pendingGets > 0
    /\ pendingGets' = pendingGets - 1
    /\ SetRecv(fetchPresenceSetSpaces(CurrentRecv, members))
    /\ lastOp' = "getAll"
    /\ UNCHANGED <<cursorCommunicationEnabled, sendVars, entered,
                   now, nextFlush, pendingAtDisable, staleWrite, batchOrder, pendingEnter>>

    /\ UNCHANGED restVars
\* async function handleBackgroundMessage, up to its await or to its end
\* (background.js:371-385)
handleBackgroundMessage ==
    /\ IF ~cursorCommunicationEnabled
         THEN \* fetchPresenceSet(); await space.enter({color})
              /\ pendingGets < MaxPendingGets
              /\ pendingEnter < MaxPendingEnters
              /\ pendingGets' = pendingGets + 1
              /\ pendingEnter' = pendingEnter + 1
              /\ lastOp' = "enable_await"
              /\ UNCHANGED <<cursorCommunicationEnabled, recvVars, entered>>
         ELSE \* clearCursors(); space.leave(); cursorCommunicationEnabled = !...
              /\ SetRecv(clearCursors(CurrentRecv))
              /\ cursorCommunicationEnabled' = ~cursorCommunicationEnabled
              /\ entered' = FALSE
              /\ lastOp' = "disable"
              /\ UNCHANGED <<pendingGets, pendingEnter, staleWrite, batchOrder>>
    /\ UNCHANGED <<sendVars, now, nextFlush, pendingAtDisable>>

    /\ toggles' = (toggles + 1) % 2
    /\ UNCHANGED <<pageVars, funVars, storeVars, inFlight>>
\* space.enter resolves: handleBackgroundMessage resumes after its await
EnterResolved ==
    /\ pendingEnter > 0
    /\ pendingEnter' = pendingEnter - 1
    /\ entered' = TRUE
    /\ cursorCommunicationEnabled' = ~cursorCommunicationEnabled
    /\ lastOp' = "enter_resolved"
    /\ UNCHANGED <<sendVars, recvVars, pendingGets, now, nextFlush, pendingAtDisable>>

    /\ UNCHANGED <<pageVars, funVars, toggles, storeVars, inFlight>>
\* space.enter rejects: the await throws and handleBackgroundMessage ends
\* without reaching the assignment of cursorCommunicationEnabled
EnterRejected ==
    /\ pendingEnter > 0
    /\ pendingEnter' = pendingEnter - 1
    /\ lastOp' = "enter_rejected"
    /\ UNCHANGED <<cursorCommunicationEnabled, sendVars, recvVars, pendingGets, entered,
                   now, nextFlush, pendingAtDisable>>

    /\ UNCHANGED restVars
NextSpaces ==
    \/ handleBackgroundMessage
    \/ EnterResolved
    \/ EnterRejected
    \/ \E members \in PresenceSets : GetAllResolved(members)
    \/ \E cursorUpdate \in CursorUpdates : CursorUpdateDelivery(cursorUpdate)
    \/ \E c \in ClientIds : SpaceLeaveDelivery(c)

SpecSpaces == Init /\ [][NextSpaces]_vars

(***************************************************************************)
(* One batch of two samples, delivered once.  Its samples carry the batch  *)
(* number 1, so that batchOrder tells whether the batch has been delivered *)
(* and whether one of its samples has assigned a position.                 *)
(***************************************************************************)
onceSample0 == Sample(10, 10, 10, 10, 0, "", 0, 1)
onceSample50 == Sample(20, 15, 20, 15, 50, "", 0, 1)
OnceData == UpdateData(<<onceSample0, onceSample50>>)

NextOnce ==
    \/ Flush
    \/ ToggleMessage
    \/ /\ batchOrder[Sender].received = 0
       /\ UpdateDelivery(Sender, OnceData)
    \/ LeaveDelivery(Sender)
    \/ \E err \in BOOLEAN : PresenceGetCallback(err, <<>>)
    \/ \E i \in 1..Len(timers) : ReplayTimer(i)
    \/ \E d \in ClockSteps : Advance(d)

SpecOnce == Init /\ [][NextOnce]_vars

(***************************************************************************)
(* The whole script with one remote participant: the pointer of this tab   *)
(* moves once while the participant's cursor is replayed.                  *)
(***************************************************************************)
NextHitTest ==
    \/ \E p \in MousePoints : captured = 0 /\ MouseMove(p)
    \/ Flush
    \/ ToggleMessage
    \/ \E d \in RemoteData : UpdateDelivery(Sender, d)
    \/ \E err \in BOOLEAN : PresenceGetCallback(err, <<>>)
    \/ \E i \in 1..Len(timers) : ReplayTimer(i)
    \/ \E d \in ClockSteps : Advance(d)

SpecHitTest == Init /\ [][NextHitTest]_vars

(***************************************************************************)
(* Pages and channels.  The script reads window.location.href once, when   *)
(* it runs, and gets the channel of that URL (content.js:11-14).  The      *)
(* transport delivers what a participant publishes on a channel to the     *)
(* subscribers of the channel of that name.  A participant on URL u is one *)
(* whose script ran on a page loaded at u.  A navigation inside the        *)
(* document (fragment, history.pushState) changes location.href and does   *)
(* not run the script again.                                                *)
(***************************************************************************)
\* the two URLs belong to one document: they differ in the fragment only
SameDocument(u, v) ==
    {u, v} \subseteq {"https://a.test/", "https://a.test/#top"}

NavigateInPage(u) ==
    /\ u # location
    /\ SameDocument(location, u)
    /\ location' = u
    /\ lastOp' = "navigate"
    /\ UNCHANGED <<cursorCommunicationEnabled, sendVars, recvVars, pendingGets, entered,
                   now, nextFlush, pendingAtDisable, pendingEnter, channel, funVars, toggles,
                   storeVars, inFlight>>

\* a participant on URL u updates its presence data: the subscribers of
\* the channel of u get the update
RemoteUpdate(u, c, d) == channel = ChannelName(u) /\ UpdateDelivery(c, d)

\* a participant on URL u leaves
RemoteLeave(u, c) == channel = ChannelName(u) /\ LeaveDelivery(c)

\* presence.get returns the members of this tab's channel: participants on URL u
RemoteSnapshot(u, err, presenceSet) ==
    channel = ChannelName(u) /\ PresenceGetCallback(err, presenceSet)

NextChannels ==
    \/ Flush
    \/ ToggleMessage
    \/ \E u \in Urls : NavigateInPage(u)
    \/ \E u \in Urls, d \in RemoteData : RemoteUpdate(u, Sender, d)
    \/ \E u \in Urls : RemoteLeave(u, Sender)
    \/ \E u \in Urls, err \in BOOLEAN, presenceSet \in {<<>>, <<PresenceMsg(Sender, EnterData)>>} :
          RemoteSnapshot(u, err, presenceSet)
    \/ \E i \in 1..Len(timers) : ReplayTimer(i)
    \/ \E d \in ClockSteps : Advance(d)

SpecChannels == (\E t \in ClockSteps, u \in Urls : InitPage(t, u)) /\ [][NextChannels]_vars

(***************************************************************************)
(* getCSSPath (background.js:578-599).  A document is a sequence of nodes  *)
(* in document order; each node holds its type, its name, its id and the  *)
(* index of its parent (0 for none).  Node 1 is the document, node 2 the   *)
(* html element, node 3 the head element, node 4 the body element; the    *)
(* other nodes are children of body: elements and text nodes.              *)
(***************************************************************************)
Node(nodeType, nodeName, id, parent) ==
    [nodeType |-> nodeType, nodeName |-> nodeName, id |-> id, parent |-> parent]

documentNode == Node("document", "#document", "", 0)
htmlNode == Node("element", "html", "", 1)
headNode == Node("element", "head", "", 2)
bodyNode == Node("element", "body", "", 2)

\* the children of body that documents are built from
ChildNodes ==
    { Node("text", "#text", "", 4), Node("element", "p", "", 4),
      Node("element", "div", "", 4), Node("element", "p", "a", 4) }

\* sequences of at most n children
RECURSIVE ChildSeqs(_)
ChildSeqs(n) ==
    IF n = 0 THEN {<<>>}
    ELSE LET shorter == ChildSeqs(n - 1)
         IN  shorter \cup {Append(cs, c) : cs \in shorter, c \in ChildNodes}

\* the documents: no id is given to two elements
Documents ==
    {<<documentNode, htmlNode, headNode, bodyNode>> \o cs : cs \in
        {cs \in ChildSeqs(MaxChildren) :
            Cardinality({i \in 1..Len(cs) : cs[i].id # ""}) <= 1}}

ElementsOf(doc) == {i \in 1..Len(doc) : doc[i].nodeType = "element"}

\* node.previousSibling (0 for null)
previousSibling(doc, i) ==
    LET before == {j \in 1..(i - 1) : doc[j].parent = doc[i].parent}
    IN  IF before = {} THEN 0 ELSE CHOOSE j \in before : \A k \in before : k <= j

\* the inner while loop: siblingSelectors.length
RECURSIVE siblingSelectorsLength(_, _)
siblingSelectorsLength(doc, sibling) ==
    IF sibling = 0 \/ doc[sibling].nodeType # "element" THEN 0
    ELSE 1 + siblingSelectorsLength(doc, previousSibling(doc, sibling))

\* one step of the path: nodeName + "#" + id, or nodeName + ":nth-child(n)"
\* (nth = 0: no :nth-child)
Selector(doc, element) ==
    IF doc[element].id # ""
      THEN [nodeName |-> doc[element].nodeName, id |-> doc[element].id, nth |-> 0]
      ELSE [nodeName |-> doc[element].nodeName, id |-> "",
            nth |-> siblingSelectorsLength(doc, element)]

\* the outer while loop; path.join(" > ") is kept as the sequence of steps
RECURSIVE CSSPathLoop(_, _, _)
CSSPathLoop(doc, element, path) ==
    IF doc[element].nodeType # "element" THEN path
    ELSE CSSPathLoop(doc, doc[element].parent, <<Selector(doc, element)>> \o path)

getCSSPath(doc, element) == CSSPathLoop(doc, element, <<>>)

\* the position :nth-child tests: the element's rank among the element
\* children of its parent
ElementIndex(doc, j) ==
    Cardinality({k \in 1..j : doc[k].parent = doc[j].parent /\ doc[k].nodeType = "element"})

\* element j matches one step of a path
MatchesStep(doc, j, sel) ==
    /\ doc[j].nodeType = "element"
    /\ doc[j].nodeName = sel.nodeName
    /\ sel.id # "" => doc[j].id = sel.id
    /\ sel.nth # 0 => ElementIndex(doc, j) = sel.nth

\* element j matches the steps joined by the child combinator " > "
RECURSIVE MatchesPath(_, _, _)
MatchesPath(doc, j, path) ==
    /\ j # 0
    /\ MatchesStep(doc, j, path[Len(path)])
    /\ Len(path) > 1 => MatchesPath(doc, doc[j].parent, SubSeq(path, 1, Len(path) - 1))

\* document.querySelectorAll(path)
querySelectorAllPath(doc, path) == {j \in ElementsOf(doc) : MatchesPath(doc, j, path)}

\* getCSSPath is called on an element of the document
GetCSSPathCall(element) ==
    /\ arg.element # element
    /\ arg' = [arg EXCEPT !.element = element]
    /\ result' = getCSSPath(arg.doc, element)
    /\ UNCHANGED <<cursorCommunicationEnabled, sendVars, recvVars, pendingGets, entered,
                   now, nextFlush, pendingAtDisable, lastOp, pendingEnter, pageVars, toggles,
                   storeVars, inFlight>>

NextCSSPath == \E element \in ElementsOf(arg.doc) : GetCSSPathCall(element)

InitCSSPath ==
    /\ \E t \in ClockSteps : InitScript(t)
    /\ location = pageUrl
    /\ channel = ChannelName(pageUrl)
    /\ toggles = 0
    /\ \E doc \in Documents : arg = [doc |-> doc, element |-> 0]
    /\ result = NoValue
    /\ inFlight = {}
    /\ storage = FALSE
    /\ storageOps = <<>>

SpecCSSPath == InitCSSPath /\ [][NextCSSPath]_vars

(***************************************************************************)
(* The capture half with a remote participant in the presence set: the     *)
(* presence.get of an enable fails, or returns no member or the            *)
(* participant.                                                            *)
(***************************************************************************)
NextFetch ==
    \/ \E p \in MousePoints : MouseMove(p)
    \/ Flush
    \/ ToggleMessage
    \/ \E err \in BOOLEAN, presenceSet \in {<<>>, <<PresenceMsg(Sender, EnterData)>>} :
          PresenceGetCallback(err, presenceSet)
    \/ \E d \in ClockSteps : Advance(d)

SpecFetch == Init /\ [][NextFetch]_vars

(***************************************************************************)
(* The participant has disabled sharing: its last batches and its leave    *)
(* notification are on their way and arrive in any order.                  *)
(***************************************************************************)
LastMessages ==
    {PresenceMessage(Sender, "update", EarlierData),
     PresenceMessage(Sender, "update", LaterData),
     PresenceMessage(Sender, "leave", EnterData)}

DeliverInFlight(m) ==
    /\ m \in inFlight
    /\ IF m.action = "update"
         THEN UpdateDelivery(m.clientId, m.data)
         ELSE LeaveDelivery(m.clientId)

NextLeave ==
    \/ Flush
    \/ ToggleMessage
    \/ \E m \in LastMessages : DeliverInFlight(m)
    \/ \E err \in BOOLEAN : PresenceGetCallback(err, <<>>)
    \/ \E i \in 1..Len(timers) : ReplayTimer(i)
    \/ \E d \in ClockSteps : Advance(d)

InitLeave ==
    /\ \E t \in ClockSteps : InitScript(t)
    /\ location = pageUrl
    /\ channel = ChannelName(pageUrl)
    /\ toggles = 0
    /\ arg = NoValue
    /\ result = NoValue
    /\ inFlight = LastMessages
    /\ storage = FALSE
    /\ storageOps = <<>>

SpecLeave == InitLeave /\ [][NextLeave]_vars

(***************************************************************************)
(* The tab among the subscribers of its own channel: the batches it        *)
(* publishes come back to its 'update' subscriber, and while it is entered *)
(* the presence set lists it.                                              *)
(***************************************************************************)
\* a batch this tab has published is delivered to this tab
EchoDelivery(i) == UpdateDelivery(clientId, published[i])

\* the presence set of the channel as presence.get returns it to this tab
OwnPresenceSet == IF entered THEN <<PresenceMsg(clientId, EnterData)>> ELSE <<>>

NextEcho ==
    \/ \E p \in MousePoints : captured = 0 /\ MouseMove(p)
    \/ Flush
    \/ ToggleMessage
    \/ \E i \in 1..Len(published) : EchoDelivery(i)
    \/ \E err \in BOOLEAN : PresenceGetCallback(err, OwnPresenceSet)
    \/ \E i \in 1..Len(timers) : ReplayTimer(i)
    \/ \E d \in ClockSteps : Advance(d)

SpecEcho == Init /\ [][NextEcho]_vars

(***************************************************************************)
(* Anchored capture and replay in scrolled documents.  Both documents lay  *)
(* the anchor element out at the same page position; each window has its   *)
(* own scroll offsets.                                                     *)
(***************************************************************************)
\* window.scrollX / window.scrollY of a window
ScrollOffsets == {<<0, 0>>, <<0, 100>>, <<3, 40>>, <<10, 0>>}

\* pageX / pageY of pointer events over the anchor element
AnchorPoints == {<<10, 10>>, <<12, 8>>, <<6, 30>>, <<25, 5>>}

\* element.getBoundingClientRect(): the page position of the element seen
\* from the viewport of a window scrolled by scroll
getBoundingClientRect(el, scroll) ==
    [left |-> el.left - scroll[1], top |-> el.top - scroll[2]]

\* xElement = e.pageX - rect.left; yElement = e.pageY - rect.top
ElementOffsets(el, pageX, pageY, scroll) ==
    LET rect == getBoundingClientRect(el, scroll)
    IN  [xElement |-> pageX - rect.left, yElement |-> pageY - rect.top]

\* style.left = rect.left + position.xElement; style.top = rect.top + position.yElement
AnchoredPosition(el, position, scroll) ==
    LET rect == getBoundingClientRect(el, scroll)
    IN  <<rect.left + position.xElement, rect.top + position.yElement>>

\* a sample captured in the sender's window is replayed in the receiver's
AnchoredReplayCall ==
    /\ result = NoValue
    /\ result' = AnchoredPosition(boxElement,
                      ElementOffsets(boxElement, arg.pageX, arg.pageY, arg.senderScroll),
                      arg.receiverScroll)
    /\ UNCHANGED <<cursorCommunicationEnabled, sendVars, recvVars, pendingGets, entered,
                   now, nextFlush, pendingAtDisable, lastOp, pendingEnter, pageVars, toggles,
                   storeVars, inFlight, arg>>

NextScroll == AnchoredReplayCall

InitScroll ==
    /\ \E t \in ClockSteps : InitScript(t)
    /\ location = pageUrl
    /\ channel = ChannelName(pageUrl)
    /\ toggles = 0
    /\ \E p \in AnchorPoints, s \in ScrollOffsets, r \in ScrollOffsets :
          arg = [pageX |-> p[1], pageY |-> p[2], senderScroll |-> s, receiverScroll |-> r]
    /\ result = NoValue
    /\ inFlight = {}
    /\ storage = FALSE
    /\ storageOps = <<>>

SpecScroll == InitScroll /\ [][NextScroll]_vars

(***************************************************************************)
(* The background script (background.js:1-50).  Two listeners are          *)
(* registered on chrome.runtime.onMessage, with the same body: each        *)
(* message runs both.  The callbacks of chrome.storage.sync run one at a   *)
(* time, in the order of the calls.                                        *)
(***************************************************************************)
\* the listeners, in registration order
Listeners == <<1, 2>>

\* chrome.storage.sync.get([urlKey], callback) of a listener handling method
StorageGet(listener, method) ==
    [call |-> "get", listener |-> listener, method |-> method, value |-> FALSE]

\* chrome.storage.sync.set(value, callback)
StorageSet(listener, v) ==
    [call |-> "set", listener |-> listener, method |-> "setCursorCommunication", value |-> v]

\* value[urlKey] = !result[urlKey]
Negated(v) == ~v

\* a message arrives: every listener calls chrome.storage.sync.get and returns true
RuntimeMessage(method) ==
    /\ Len(storageOps) + Len(Listeners) <= MaxStorageOps
    /\ storageOps' = storageOps \o [i \in 1..Len(Listeners) |-> StorageGet(Listeners[i], method)]
    /\ toggles' = IF method = "setCursorCommunication" THEN (toggles + 1) % 2 ELSE toggles
    /\ lastOp' = method
    /\ UNCHANGED <<cursorCommunicationEnabled, sendVars, recvVars, pendingGets, entered,
                   now, nextFlush, pendingAtDisable, pendingEnter, pageVars, funVars,
                   storage, inFlight>>

\* the callback of the oldest pending storage call runs
StorageCallback ==
    /\ storageOps # <<>>
    /\ LET op == Head(storageOps)
       IN  IF op.call = "set"
           THEN \* the value is stored; sendResponse("Value set")
                /\ storage' = op.value
                /\ storageOps' = Tail(storageOps)
                /\ result' = "Value set"
                /\ lastOp' = "storage_set"
           ELSE IF op.method = "getCursorCommunication"
           THEN \* sendResponse(result[urlKey] == true)
                /\ storageOps' = Tail(storageOps)
                /\ result' = storage
                /\ lastOp' = "storage_get"
                /\ UNCHANGED storage
           ELSE \* value[urlKey] = !result[urlKey]; chrome.storage.sync.set(value, ...)
                /\ storageOps' = Append(Tail(storageOps), StorageSet(op.listener, Negated(storage)))
                /\ lastOp' = "storage_get"
                /\ UNCHANGED <<storage, result>>
    /\ UNCHANGED <<cursorCommunicationEnabled, sendVars, recvVars, pendingGets, entered,
                   now, nextFlush, pendingAtDisable, pendingEnter, pageVars, arg, toggles,
                   inFlight>>

NextStorage ==
    \/ \E method \in {"getCursorCommunication", "setCursorCommunication"} : RuntimeMessage(method)
    \/ StorageCallback

SpecStorage == Init /\ [][NextStorage]_vars

(***************************************************************************)
(* Properties.                                                             *)
(***************************************************************************)
RECURSIVE Flatten(_)
\* the samples of a sequence of published batches, in publication order
Flatten(batches) ==
    IF batches = <<>> THEN <<>>
    ELSE Head(batches).positions \o Flatten(Tail(batches))

PublishedSamples == Flatten(published)

\* C1: whenever cursorCommunicationEnabled is false, the cursors map is empty
\* and no remote-cursor element is attached to the document.
C1_DisabledNoCursors ==
    ~cursorCommunicationEnabled =>
        /\ \A c \in ClientIds : cursors[c] = NoCursor
        /\ body = {}

\* C2: while cursorCommunicationEnabled is false no step (mousemove, flush
\* tick, toggle) appends to positions or calls channel.presence.update.
C2_NoCaptureWhileDisabled ==
    [][~cursorCommunicationEnabled =>
          (positions' = positions /\ published' = published)]_vars

\* a flush tick ran while disabled with samples in the accumulator
C2_Witness ==
    /\ ~cursorCommunicationEnabled
    /\ lastOp = "tick"
    /\ positions # <<>>

\* C3: no replay timer that was pending when a disable toggle was processed
\* ever assigns a cursor position.
C3_NoReplayAfterDisable == "disable" \notin staleWrite

\* C4: no replay timer that was pending when a leave of its participant was
\* processed ever assigns a cursor position.
C4_NoReplayAfterLeave == "leave" \notin staleWrite

\* C5: a sample that was in positions when sharing was disabled is in no
\* published batch.
C5_PendingDiscarded ==
    \A i \in 1..Len(PublishedSamples) : PublishedSamples[i].id \notin pendingAtDisable

\* C6: leaving aside the samples that were pending at a disable, the number of
\* published samples equals the number of captured samples that are no longer
\* in the accumulator, and no sample is published twice.
C6_PublishedEqualsCaptured ==
    /\ Cardinality({i \in 1..Len(PublishedSamples) :
                      PublishedSamples[i].id \notin pendingAtDisable})
         = Cardinality((1..captured) \ (pendingAtDisable \cup SampleIds(positions)))
    /\ \A i, j \in 1..Len(PublishedSamples) :
          i # j => PublishedSamples[i].id # PublishedSamples[j].id
    /\ SampleIds(PublishedSamples) \subseteq 1..captured

\* batches were published around a disable that left a sample pending
C6_Witness ==
    /\ Len(published) >= 2
    /\ pendingAtDisable # {}
    /\ \E i \in 1..Len(PublishedSamples) : PublishedSamples[i].id \notin pendingAtDisable

\* C7: the accumulator never holds more than batchSizeLimit samples, and a
\* non-empty accumulator is never older than one flush interval.
C7_FlushAtIntervalOrSize ==
    /\ Len(positions) <= batchSizeLimit
    /\ positions # <<>> => now - baseTime <= batchIntervalMs

\* C8: every published batch carries at least one position.
C8_NoEmptyBatch ==
    \A k \in 1..Len(published) : Len(published[k].positions) >= 1

\* a flush tick found the accumulator empty while enabled, after a publish
C8_Witness ==
    /\ cursorCommunicationEnabled
    /\ lastOp = "tick"
    /\ positions = <<>>
    /\ Len(published) >= 1

\* C9: right after a publish positions is empty and baseTime is unset; the
\* first sample of every published batch has offset 0 and was captured after
\* the previous publish.
C9_FlushResets ==
    /\ lastOp = "flush" => (positions = <<>> /\ baseTime = NoBaseTime)
    /\ \A k \in 1..Len(published) :
          /\ published[k].positions # <<>>
          /\ published[k].positions[1].time = 0
          /\ published[k].positions[1].epoch = k - 1

\* a second batch has just been published
C9_Witness ==
    /\ lastOp = "flush"
    /\ Len(published) >= 2

\* C10: in every published batch the time offsets are non-negative and
\* non-decreasing in sequence order.
C10_OffsetsMonotone ==
    \A k \in 1..Len(published) :
        LET ps == published[k].positions
        IN  /\ \A i \in 1..Len(ps) : ps[i].time >= 0
            /\ \A i, j \in 1..Len(ps) : i < j => ps[i].time <= ps[j].time

\* a published batch holds samples captured at different times
C10_Witness ==
    \E k \in 1..Len(published) :
        LET ps == published[k].positions
        IN  Len(ps) >= 2 /\ ps[1].time < ps[Len(ps)].time

\* the replay callback finds no single element for the sample's selector
Unresolvable(sel) == sel = "" \/ querySelectorCount(sel) # 1

\* C11: a batch received while enabled gets one timer per sample, due at the
\* receipt time plus the sample's offset; the timer runs at that time, and a
\* sample without a resolvable anchor puts the cursor at its page coordinates.
C11_ReplayAtReceiptPlusOffset ==
    [][/\ \A c \in ClientIds, d \in {ScenarioData} :
             (cursorCommunicationEnabled /\ UpdateDelivery(c, d)) =>
                 /\ Len(timers') = Len(timers) + Len(d.positions)
                 /\ \A k \in 1..Len(d.positions) :
                       /\ timers'[Len(timers) + k].position = d.positions[k]
                       /\ timers'[Len(timers) + k].due = now + d.positions[k].time
       /\ \A i \in 1..Len(timers) :
             timers' = RemoveAt(timers, i) =>
                 /\ now = timers[i].received + timers[i].position.time
                 /\ (/\ timers[i].src = "update"
                     /\ cursors[timers[i].clientId] # NoCursor
                     /\ Unresolvable(timers[i].position.element))
                    => style'[cursors[timers[i].clientId]]
                          = <<timers[i].position.x, timers[i].position.y>>]_vars

\* the batch was received at 2000: its first sample has put P's cursor at
\* (10,10) at 2000 and its second sample is pending for 2050
C11_Witness ==
    /\ now = 2000
    /\ lastOp = "replay"
    /\ cursors["P"] # NoCursor
    /\ style[cursors["P"]] = <<10, 10>>
    /\ Len(timers) = 1
    /\ timers[1].clientId = "P"
    /\ timers[1].position = remoteSample50
    /\ timers[1].due = 2050

\* C12: no sample of a batch that was received after a newer batch of the
\* same participant had been replayed ever assigns the cursor's position.
C12_OutOfOrderDropped == "late" \notin staleWrite

\* C13: with batches delivered in send order, no sample assigns a cursor's
\* position after a sample of a newer batch of the same participant has.
C13_AppliedInCaptureOrder == "rewind" \notin staleWrite

\* C16: a successful presence.get callback leaves a cursor entry for every
\* member of the presence set it was given, whatever the order of the members
\* and whether or not their data holds positions.
C16_SnapshotCreatesAll ==
    [][\A presenceSet \in PresenceSets :
          PresenceGetCallback(FALSE, presenceSet) =>
              \A i \in 1..Len(presenceSet) : cursors'[presenceSet[i].clientId] # NoCursor]_vars

\* C18: the presence.get callback creates the cursor of every listed member
\* that has sent no positions, and the leave notification of a participant
\* removes its entry from the cursors object and its element from the document.
C18_LeaveBeforeBatch ==
    [][/\ \A presenceSet \in PresenceSets :
             PresenceGetCallback(FALSE, presenceSet) =>
                 \A i \in 1..Len(presenceSet) :
                     ~presenceSet[i].data.hasPositions =>
                         /\ cursors'[presenceSet[i].clientId] # NoCursor
                         /\ cursors'[presenceSet[i].clientId] \in body'
       /\ \A c \in ClientIds :
             LeaveDelivery(c) =>
                 /\ cursors'[c] = NoCursor
                 /\ cursors[c] # NoCursor => cursors[c] \notin body']_vars

\* C20: while enabled, a remote participant has a cursor entry after its enter
\* event, after a presence set that lists it, and after a batch received from
\* it; it has none after its leave notification.
C20_CursorLifecycle ==
    [][\A c \in ClientIds \ {clientId} :
          /\ (cursorCommunicationEnabled /\ EnterDelivery(c)) => cursors'[c] # NoCursor
          /\ \A presenceSet \in PresenceSets :
                (/\ cursorCommunicationEnabled
                 /\ PresenceGetCallback(FALSE, presenceSet)
                 /\ \E i \in 1..Len(presenceSet) : presenceSet[i].clientId = c)
                => cursors'[c] # NoCursor
          /\ \A d \in RemoteData :
                (cursorCommunicationEnabled /\ UpdateDelivery(c, d)) => cursors'[c] # NoCursor
          /\ LeaveDelivery(c) => cursors'[c] = NoCursor]_vars

C19_DisableIdempotent ==
    [][/\ (cursorCommunicationEnabled /\ ToggleMessage) =>
             /\ ~cursorCommunicationEnabled'
             /\ \A c \in ClientIds : cursors'[c] = NoCursor
             /\ timers' = <<>>
       /\ (lastOp = "disable" /\ ToggleMessage) =>
             UNCHANGED <<cursorCommunicationEnabled, cursors, body, timers,
                         entered, pendingGets>>]_vars

\* C14: a received position whose anchor id matches no element of the
\* receiving document puts the cursor exactly at the page coordinates of the
\* pointer it was captured at.
C14_FallbackToPage ==
    [][\A cursorUpdate \in CursorUpdates :
          (/\ cursorCommunicationEnabled
           /\ CursorUpdateDelivery(cursorUpdate)
           /\ cursorUpdate.position.elementId # ""
           /\ ~hasElementById(cursorUpdate.position.elementId))
          => style'[cursors'[cursorUpdate.clientId]] = PagePosition(cursorUpdate.position)]_vars

\* C15: every received position leaves the cursor of its participant at a
\* defined position, the anchor-resolved one or the page one; none leaves
\* the cursor where it was.
C15_EverySampleSetsPosition ==
    [][\A cursorUpdate \in CursorUpdates :
          (cursorCommunicationEnabled /\ CursorUpdateDelivery(cursorUpdate)) =>
              LET pos == style'[cursors'[cursorUpdate.clientId]]
                  position == cursorUpdate.position
              IN  /\ pos # NoStyle
                  /\ \/ pos = PagePosition(position)
                     \/ /\ position.elementId # ""
                        /\ hasElementById(position.elementId)
                        /\ pos = AnchorPosition(position)]_vars

\* C21: a batch is not applied in part: once a sample of the only batch
\* received has assigned the cursor's position, no sample of it runs without
\* assigning one.
C21_NoPartialBatch ==
    ~(batchOrder[Sender].applied = 1 /\ lastOp = "replay_noop")

\* every sample in the accumulator and in the published batches
AllSamples == PublishedSamples \o positions

\* C22: the anchor of every captured sample is the page's own element under
\* the pointer, never a cursor element: the sample holds that element's
\* selector and the pointer's offset from that element's corner.
C22_AnchorNeverCursor ==
    \A i \in 1..Len(AllSamples) :
        LET sample == AllSamples[i]
            element == pageElementAt(<<sample.x, sample.y>>)
        IN  /\ sample.element = elementClassAndID(element)
            /\ sample.xElement = sample.x - element.left
            /\ sample.yElement = sample.y - element.top

\* C23: a mousemove handled while enabled whose hit-test returns no element
\* raises no error and appends a sample without anchor that holds the
\* event's page coordinates.
C23_NullHitTestStillSampled ==
    [][\A p \in MousePoints :
          (/\ cursorCommunicationEnabled
           /\ NoElement \in elementFromPoint(p)
           /\ MouseMove(p))
          => /\ lastOp' = "mousemove"
             /\ Len(positions') = Len(positions) + 1
             /\ positions'[Len(positions')].element = ""
             /\ positions'[Len(positions')].x = p[1]
             /\ positions'[Len(positions')].y = p[2]]_vars

\* C24: the cursor elements attached to the document are exactly the values
\* of the cursors object, and no two participant ids share an element.
C24_BodyMatchesCursors ==
    /\ body = CursorElems(cursors)
    /\ \A c1, c2 \in ClientIds :
          (c1 # c2 /\ cursors[c1] # NoCursor) => cursors[c1] # cursors[c2]

\* the participant's cursor has been removed by its leave while another
\* cursor, created from a presence set, stays attached
C24_Witness ==
    /\ lastOp = "leave"
    /\ cursors[Sender] = NoCursor
    /\ cursors[clientId] # NoCursor
    /\ body = {cursors[clientId]}
    /\ \E i \in 1..Len(timers) : timers[i].clientId = Sender /\ timers[i].preLeave

\* C25: what a participant on URL u publishes (a batch, its entry in the
\* presence set, its leave) creates, removes or moves a cursor only in a tab
\* whose URL is u.
C25_IsolatedByUrl ==
    [][\A u \in Urls :
          (/\ \/ \E d \in RemoteData : RemoteUpdate(u, Sender, d)
              \/ RemoteLeave(u, Sender)
              \/ RemoteSnapshot(u, FALSE, <<PresenceMsg(Sender, EnterData)>>)
           /\ <<cursors, body, timers>>' # <<cursors, body, timers>>)
          => location = u]_vars

\* C26: the path getCSSPath returns for an element selects that element and
\* no other element of the document.
C26_PathIdentifiesElement ==
    result # NoValue => querySelectorAllPath(arg.doc, result) = {arg.element}

\* C27: a presence.get callback that reports an error changes nothing: no
\* cursor, the flag and the accumulator as they were; and in every enabled
\* state, so also after the failure, a mousemove over an element appends its
\* sample and a flush publishes the samples accumulated.
C27_FetchFailureKeepsCapture ==
    [][/\ (lastOp' = "get_error" /\ pendingGets' = pendingGets - 1) =>
             UNCHANGED <<cursorCommunicationEnabled, cursors, body, style, timers,
                         entered, sendVars>>
       /\ \A p \in MousePoints :
             (/\ cursorCommunicationEnabled
              /\ NoElement \notin elementFromPoint(p)
              /\ MouseMove(p))
             => /\ Len(positions') = Len(positions) + 1
                /\ positions'[Len(positions')].x = p[1]
                /\ positions'[Len(positions')].y = p[2]
       /\ (cursorCommunicationEnabled /\ positions # <<>> /\ Flush) =>
             /\ published' = Append(published, UpdateData(positions))
             /\ positions' = <<>>]_vars

\* the presence.get callback has just reported an error in the middle of
\* the capture: the session is enabled, one batch has been published and
\* the accumulator holds a sample
C27_Witness ==
    /\ lastOp = "get_error"
    /\ cursorCommunicationEnabled
    /\ Len(published) = 1
    /\ positions # <<>>
    /\ \A c \in ClientIds : cursors[c] = NoCursor

\* C28: a replay timer, and a leave notification, of a participant that has
\* no entry in the cursors object leave the cursors object, the document and
\* the positions of the cursors as they were.
C28_MissingEntryIgnored ==
    [][/\ \A i \in 1..Len(timers) :
             (timers' = RemoveAt(timers, i) /\ cursors[timers[i].clientId] = NoCursor)
                 => UNCHANGED <<cursors, body, style>>
       /\ \A c \in ClientIds :
             (LeaveDelivery(c) /\ cursors[c] = NoCursor)
                 => UNCHANGED <<cursors, body, style>>]_vars

\* a timer of the participant has run after the participant's entry was
\* removed, while the cursor of another participant stays attached
C28_Witness ==
    /\ lastOp = "replay_noop"
    /\ cursors[Sender] = NoCursor
    /\ cursors[clientId] # NoCursor
    /\ body = {cursors[clientId]}

\* C29: the left and the top of every cursor that has a position are finite
\* numbers.
C29_PositionsFinite ==
    \A e \in body :
        style[e] # NoStyle => IsFinite(style[e][1]) /\ IsFinite(style[e][2])

\* C30: when no space.enter and no getAll is pending, the flag is true
\* exactly when this participant is entered in the space, and exactly when
\* the number of control messages handled is odd.
C30_FlagMatchesEnteredAndParity ==
    (pendingEnter = 0 /\ pendingGets = 0) =>
        /\ cursorCommunicationEnabled <=> entered
        /\ cursorCommunicationEnabled <=> (toggles = 1)

\* C31: once every message of the participant that has left is delivered, an
\* enabled receiver holds no cursor for the participant.
C31_NoCursorAfterLeave ==
    (inFlight = {} /\ cursorCommunicationEnabled) => cursors[Sender] = NoCursor

\* C32: the cursors map has no entry under the tab's own clientId.
C32_NoOwnCursor == cursors[clientId] = NoCursor

\* C33: the time offset of every published sample is at most the flush
\* interval.
C33_OffsetWithinInterval ==
    \A i \in 1..Len(PublishedSamples) : PublishedSamples[i].time <= batchIntervalMs

\* a tick of the interval timer lies within the time explored
TickAhead == nextFlush <= MaxTime

\* C34: a sample in the buffer while a tick is still to come is eventually
\* in a published batch, unless sharing is disabled in between.
C34_CapturedEventuallyPublished ==
    \A k \in 1..MaxCaptured :
        (k \in SampleIds(positions) /\ TickAhead)
            ~> (~cursorCommunicationEnabled \/ k \in SampleIds(PublishedSamples))

\* every sample captured is in a published batch, sharing enabled
C34_Witness ==
    /\ cursorCommunicationEnabled
    /\ lastOp = "flush"
    /\ captured >= 2
    /\ SampleIds(PublishedSamples) = 1..captured
    /\ pendingAtDisable = {}

\* C35: a sample replayed through its anchor element puts the cursor at the
\* sample's page coordinates.
C35_ReplayAtPageCoordinates ==
    result # NoValue => result = <<arg.pageX, arg.pageY>>

\* C36: when no storage callback is pending, the stored flag is the initial
\* flag (false) negated once for every setCursorCommunication message.
C36_NegatedOncePerMessage ==
    storageOps = <<>> => (storage <=> (toggles = 1))

====
